---- MODULE Spec2Model ----
(***************************************************************************)
(* A model of amazon_login.go: one run of main().  The run loads the       *)
(* account pool, the proxy pool and the account-to-proxy mapping, selects  *)
(* an account and its proxy, probes the proxy, replaces it when the probe  *)
(* fails, restores the stored cookies or performs a fresh login, and       *)
(* writes the cookie file and the mapping file.                            *)
(*                                                                         *)
(* The browser driver (chromedp) is the environment: each chromedp.Run     *)
(* either returns nil or an error, and the page decides what the cookie    *)
(* jar holds.  ioutil.WriteFile opens the file with O_TRUNC and then       *)
(* writes: it can fail before the open (file untouched) or after it (file  *)
(* truncated).                                                             *)
(***************************************************************************)
EXTENDS Naturals, Sequences, FiniteSets

\* ------------------------------------------------------------------ bounds
MaxAccounts == 2
MaxProxies == 2

\* ------------------------------------------------------------ value domains
\* Account identifiers, as sequences of characters (strings.Replace acts on them).
Emails == { <<"a", "@", "x">>, <<"a", "_", "x">>, <<"b", "@", "x">> }

Account(e) == [Email |-> e, Password |-> "secret"]

Proxy(s, p) == [Server |-> s, Port |-> p]

ProxySet == { Proxy("h1", "8080"), Proxy("h1", "9090") }

\* The zero values of the Go structs.
NoAccount == [Email |-> <<>>, Password |-> ""]

NoProxy == [Server |-> "", Port |-> ""]

\* A cookie is abstracted to its session token; a CookieSet is a sequence of them.
CookieSets == { <<>>, <<"c1">>, <<"c2">> }

\* What the jar can hold when the login has completed: the new session's token, or
\* nothing (the driver reports whatever the browser holds).
LoginJars == { <<>>, <<"c2">> }

\* The content of a file on disk.
Absent == [kind |-> "absent", data |-> <<>>]

Garbage == [kind |-> "garbage", data |-> <<>>]

Truncated == [kind |-> "truncated", data |-> <<>>]

Data(d) == [kind |-> "data", data |-> d]

\* Sequences over S of length at most n.
SeqUpTo(S, n) == UNION { [1..k -> S] : k \in 0..n }

Range(s) == { s[i] : i \in DOMAIN s }

NoDuplicates(s) == \A i, j \in DOMAIN s : s[i] = s[j] => i = j

\* All orders in which the elements of a finite set can be listed.
Orderings(S) == { s \in [1..Cardinality(S) -> S] : NoDuplicates(s) }

\* ------------------------------------------------------------- persistence
\* strings.Replace(email, "@", "_", -1)
ReplaceAll(email) == [i \in DOMAIN email |-> IF email[i] = "@" THEN "_" ELSE email[i]]

\* fmt.Sprintf("cookies_%s.json", strings.Replace(email, "@", "_", -1))
cookieFileName(email) == <<"cookies_">> \o ReplaceAll(email) \o <<".json">>

CookieFileNames == { cookieFileName(e) : e \in Emails }

\* A loadCookies that does not check the Unmarshal error.
loadCookiesUnchecked(files, email) ==
    LET f == files[cookieFileName(email)]
    IN  IF f.kind = "absent"
        THEN [err |-> TRUE, cookies |-> <<>>]
        ELSE [err |-> FALSE, cookies |-> f.data]

\* loadCookies: ReadFile fails on a missing file, Unmarshal on an unparsable one.
loadCookies(files, email) ==
    LET f == files[cookieFileName(email)]
    IN  IF f.kind = "data"
        THEN [err |-> FALSE, cookies |-> f.data]
        ELSE [err |-> TRUE, cookies |-> <<>>]

\* One record of the mapping file.
AccountProxyMapping(e, p) == [Email |-> e, Proxy |-> p]

\* The map m with m[k] = v set, as Go's mapping[k] = v.
MapSet(m, k, v) == [x \in (DOMAIN m) \cup {k} |-> IF x = k THEN v ELSE m[x]]

EmptyMap == [x \in {} |-> NoProxy]

\* The loop of loadMapping: later records overwrite earlier ones.
RECURSIVE FoldMappings(_, _)
FoldMappings(mappings, m) ==
    IF mappings = <<>>
    THEN m
    ELSE FoldMappings(Tail(mappings), MapSet(m, Head(mappings).Email, Head(mappings).Proxy))

\* loadMapping: a missing file is an empty map, an unparsable one an error.
loadMapping(file) ==
    CASE file.kind = "absent" -> [err |-> FALSE, mapping |-> EmptyMap]
      [] file.kind = "data"   -> [err |-> FALSE, mapping |-> FoldMappings(file.data, EmptyMap)]
      [] OTHER                -> [err |-> TRUE, mapping |-> EmptyMap]

\* ioutil.WriteFile(name, data, 0644): the outcomes of open(O_TRUNC), write, close.
WriteFile(old, data) ==
    { [err |-> FALSE, content |-> Data(data)],
      [err |-> TRUE, content |-> old],
      [err |-> TRUE, content |-> Truncated] }

\* A saveMapping whose loop assigns the list instead of appending to it: only the
\* record visited last is written.
saveMappingLastOnly(old, m) ==
    UNION { WriteFile(old, << AccountProxyMapping(e, m[e]) >>) : e \in DOMAIN m }

\* saveMapping: the records are listed in Go's map iteration order, which is any
\* order, and the list is written with ioutil.WriteFile.
saveMapping(old, m) ==
    UNION { WriteFile(old, [i \in DOMAIN order |-> AccountProxyMapping(order[i], m[order[i]])])
            : order \in Orderings(DOMAIN m) }

\* ---------------------------------------------------------------- selector
\* A selection that never consults the mapping: it always draws from the pool.
selectIgnoringAffinity(accs, prox, m) ==
    IF Len(accs) = 0
    THEN { [panic |-> TRUE, account |-> NoAccount, proxy |-> NoProxy, mapping |-> m] }
    ELSE UNION {
           LET acc == accs[i]
           IN  IF Len(prox) = 0
               THEN { [panic |-> TRUE, account |-> acc, proxy |-> NoProxy, mapping |-> m] }
               ELSE { [panic |-> FALSE, account |-> acc, proxy |-> prox[j],
                       mapping |-> MapSet(m, acc.Email, prox[j])] : j \in DOMAIN prox }
           : i \in DOMAIN accs }

\* A selection that does not record the new affinity (line 127 left out).
selectWithoutRecording(accs, prox, m) ==
    IF Len(accs) = 0
    THEN { [panic |-> TRUE, account |-> NoAccount, proxy |-> NoProxy, mapping |-> m] }
    ELSE UNION {
           LET acc == accs[i]
           IN  IF acc.Email \in DOMAIN m
               THEN { [panic |-> FALSE, account |-> acc, proxy |-> m[acc.Email], mapping |-> m] }
               ELSE IF Len(prox) = 0
                    THEN { [panic |-> TRUE, account |-> acc, proxy |-> NoProxy, mapping |-> m] }
                    ELSE { [panic |-> FALSE, account |-> acc, proxy |-> prox[j], mapping |-> m]
                           : j \in DOMAIN prox }
           : i \in DOMAIN accs }

\* selectRandomAccountAndProxy: every result the random choices allow.  rand.Intn(0)
\* panics, so an empty account pool panics, and an empty proxy pool panics when the
\* account has no mapped proxy.  The map is mutated in place.
selectRandomAccountAndProxy(accs, prox, m) ==
    IF Len(accs) = 0
    THEN { [panic |-> TRUE, account |-> NoAccount, proxy |-> NoProxy, mapping |-> m] }
    ELSE UNION {
           LET acc == accs[i]
           IN  IF acc.Email \in DOMAIN m
               THEN { [panic |-> FALSE, account |-> acc, proxy |-> m[acc.Email], mapping |-> m] }
               ELSE IF Len(prox) = 0
                    THEN { [panic |-> TRUE, account |-> acc, proxy |-> NoProxy, mapping |-> m] }
                    ELSE { [panic |-> FALSE, account |-> acc, proxy |-> prox[j],
                            mapping |-> MapSet(m, acc.Email, prox[j])] : j \in DOMAIN prox }
           : i \in DOMAIN accs }

\* A loop condition with the port comparison inverted.
SameProxyPortInverted(a, b) == a.Server = b.Server /\ a.Port # b.Port

\* The loop condition of the replacement search (line 209).
SameProxy(a, b) == a.Server = b.Server /\ a.Port = b.Port

\* -------------------------------------------------------------------- state
VARIABLES
    accounts,       \* the loaded account pool (accounts.txt)
    proxies,        \* the loaded proxy pool (proxies.txt)
    mappingFile,    \* account_proxy_mapping.json on disk
    cookieFiles,    \* the cookie files on disk, by file name
    mappingFile0,   \* the mapping file at process start
    cookieFiles0,   \* the cookie files at process start
    mapping,        \* main's mapping (map[string]Proxy)
    account,        \* main's account
    proxy,          \* main's proxy
    newProxy,       \* main's newProxy
    bound,          \* the proxy of the ProxyServer option of the current ctx
    proxyFailed,    \* main's proxyFailed
    cookiesChan,    \* the buffered channel, as the sequence of values in it
    cookies,        \* the cookies loaded from disk, then the cookies received
    jar,            \* the browser's cookie jar
    pc,             \* where main is
    outcome,        \* how the run ended ("running" until it has)
    trace,          \* the session-acquisition states entered, in order
    driverOps,      \* driver calls issued (chromedp.Run, OuterHTML)
    probes,         \* runs of the initial proxy probe
    rebinds,        \* contexts created for a replacement proxy
    logins,         \* calls of performLogin
    captures,       \* page markup captures attempted
    sends,          \* values sent on cookiesChan
    recvs,          \* values received from cookiesChan
    probed,         \* the proxy the initial probe went through
    validity        \* the result of the validity probe

vars == << accounts, proxies, mappingFile, cookieFiles, mappingFile0, cookieFiles0,
           mapping, account, proxy, newProxy, bound, proxyFailed, cookiesChan, cookies,
           jar, pc, outcome, trace, driverOps, probes, rebinds, logins, captures,
           sends, recvs, probed, validity >>

inputs == << accounts, proxies, mappingFile0, cookieFiles0 >>

\* A channel made without a buffer.
ChanCapUnbuffered == 1 - 1

\* make(chan []*chromedp.Cookie, 1)
ChanCap == 1

AccountPools == { s \in SeqUpTo({ Account(e) : e \in Emails }, MaxAccounts) : NoDuplicates(s) }

ProxyPools == SeqUpTo(ProxySet, MaxProxies)

MappingFiles ==
    { Absent, Garbage }
    \cup { Data(s) : s \in SeqUpTo({ AccountProxyMapping(e, p) : e \in Emails, p \in ProxySet }, 1) }

StoredCookieFiles == { Absent, Garbage, Data(<<"c1">>) }

\* chromedp.Evaluate(..., &exists): its error and the boolean it stored.  On an error
\* exists keeps its zero value.
ProbeResults ==
    { [err |-> FALSE, exists |-> TRUE, done |-> TRUE],
      [err |-> FALSE, exists |-> FALSE, done |-> TRUE],
      [err |-> TRUE, exists |-> FALSE, done |-> TRUE] }

NotEvaluated == [err |-> FALSE, exists |-> FALSE, done |-> FALSE]

\* The condition with || for &&.
CookiesValidOr(r) == r.err = FALSE \/ r.exists

\* Line 248: err == nil && exists
CookiesValid(r) == r.err = FALSE /\ r.exists

Init ==
    /\ accounts \in AccountPools
    /\ proxies \in ProxyPools
    /\ mappingFile \in MappingFiles
    /\ cookieFiles \in [CookieFileNames -> StoredCookieFiles]
    /\ mappingFile0 = mappingFile
    /\ cookieFiles0 = cookieFiles
    /\ mapping = EmptyMap
    /\ account = NoAccount
    /\ proxy = NoProxy
    /\ newProxy = NoProxy
    /\ bound = NoProxy
    /\ proxyFailed = FALSE
    /\ cookiesChan = <<>>
    /\ cookies = <<>>
    /\ jar = <<>>
    /\ pc = "load"
    /\ outcome = "running"
    /\ trace = <<>>
    /\ driverOps = 0
    /\ probes = 0
    /\ rebinds = 0
    /\ logins = 0
    /\ captures = 0
    /\ sends = 0
    /\ recvs = 0
    /\ probed = NoProxy
    /\ validity = NotEvaluated

\* The process ends: a return from main, log.Fatalf or a panic.
Exit(how) == pc' = "exit" /\ outcome' = how

\* ------------------------------------------------------------------ actions
\* Lines 159-170: the three loads; log.Fatalf on a mapping file that does not parse.
Load ==
    /\ pc = "load"
    /\ LET r == loadMapping(mappingFile)
       IN  IF r.err
           THEN Exit("LoadError") /\ UNCHANGED mapping
           ELSE mapping' = r.mapping /\ pc' = "select" /\ UNCHANGED outcome
    /\ UNCHANGED << accounts, proxies, mappingFile, cookieFiles, mappingFile0, cookieFiles0,
                    account, proxy, newProxy, bound, proxyFailed, cookiesChan, cookies,
                    jar, trace, driverOps, probes, rebinds, logins, captures, sends, recvs,
                    probed, validity >>

\* Lines 173-192: the selection, the context bound to the proxy, and the channel.
Select ==
    /\ pc = "select"
    /\ \E r \in selectRandomAccountAndProxy(accounts, proxies, mapping) :
          /\ account' = r.account
          /\ proxy' = r.proxy
          /\ mapping' = r.mapping
          /\ IF r.panic
             THEN Exit("Panic") /\ UNCHANGED bound
             ELSE bound' = r.proxy /\ pc' = "probe" /\ UNCHANGED outcome
    /\ cookiesChan' = <<>>
    /\ UNCHANGED << accounts, proxies, mappingFile, cookieFiles, mappingFile0, cookieFiles0,
                    newProxy, proxyFailed, cookies, jar, trace, driverOps, probes,
                    rebinds, logins, captures, sends, recvs,
                    probed, validity >>

\* Lines 195-203: the probe through the bound proxy; its error sets proxyFailed.
Probe ==
    /\ pc = "probe"
    /\ \E failed \in BOOLEAN :
          /\ proxyFailed' = failed
          /\ pc' = IF failed THEN "pick" ELSE "start"
    /\ driverOps' = driverOps + 1
    /\ probes' = probes + 1
    /\ probed' = bound
    /\ UNCHANGED << accounts, proxies, mappingFile, cookieFiles, mappingFile0, cookieFiles0,
                    mapping, account, proxy, newProxy, bound, cookiesChan, cookies, jar,
                    outcome, trace, rebinds, logins, captures, sends, recvs,
                    validity >>

\* Line 208: the first random pick; rand.Intn(0) panics on an empty pool.
Pick ==
    /\ pc = "pick"
    /\ IF Len(proxies) = 0
       THEN Exit("Panic") /\ UNCHANGED newProxy
       ELSE /\ \E j \in DOMAIN proxies : newProxy' = proxies[j]
            /\ pc' = "loop"
            /\ UNCHANGED outcome
    /\ UNCHANGED << accounts, proxies, mappingFile, cookieFiles, mappingFile0, cookieFiles0,
                    mapping, account, proxy, bound, proxyFailed, cookiesChan, cookies, jar,
                    trace, driverOps, probes, rebinds, logins, captures, sends, recvs,
                    probed, validity >>

\* A failover that does not record the replacement.
recordNothing(m, email, p) == m

\* Line 213: mapping[account.Email] = proxy
recordReplacement(m, email, p) == MapSet(m, email, p)

\* Lines 209-211: one iteration of the loop, drawing pool entry j.
Repick(j) ==
    /\ pc = "loop"
    /\ SameProxy(newProxy, proxy)
    /\ newProxy' = proxies[j]
    /\ UNCHANGED << accounts, proxies, mappingFile, cookieFiles, mappingFile0, cookieFiles0,
                    mapping, account, proxy, bound, proxyFailed, cookiesChan, cookies, jar,
                    pc, outcome, trace, driverOps, probes, rebinds, logins, captures,
                    sends, recvs,
                    probed, validity >>

\* A failover that records the replacement but keeps the context it had (lines
\* 216-226 left out).
ReplaceKeepingContext ==
    /\ pc = "loop"
    /\ ~SameProxy(newProxy, proxy)
    /\ proxy' = newProxy
    /\ mapping' = recordReplacement(mapping, account.Email, newProxy)
    /\ rebinds' = rebinds + 1
    /\ pc' = "start"
    /\ UNCHANGED << accounts, proxies, mappingFile, cookieFiles, mappingFile0, cookieFiles0,
                    account, newProxy, proxyFailed, cookiesChan, cookies, outcome, trace,
                    driverOps, probes, logins, captures, sends, recvs, probed, validity,
                    bound, jar >>

\* Lines 209, 212-226: the loop ends; the replacement is recorded and a new context
\* is bound to it (a fresh browser: its jar is empty).
Replace ==
    /\ pc = "loop"
    /\ ~SameProxy(newProxy, proxy)
    /\ proxy' = newProxy
    /\ mapping' = recordReplacement(mapping, account.Email, newProxy)
    /\ bound' = newProxy
    /\ jar' = <<>>
    /\ rebinds' = rebinds + 1
    /\ pc' = "start"
    /\ UNCHANGED << accounts, proxies, mappingFile, cookieFiles, mappingFile0, cookieFiles0,
                    account, newProxy, proxyFailed, cookiesChan, cookies, outcome, trace,
                    driverOps, probes, logins, captures, sends, recvs,
                    probed, validity >>

\* Line 230: the cookie file of the selected account.
cookieFile == cookieFileName(account.Email)

\* Lines 230-231, 261-262: the stored cookies are loaded; without them the run goes to
\* the fresh login.
Start ==
    /\ pc = "start"
    /\ LET r == loadCookies(cookieFiles, account.Email)
       IN  IF r.err
           THEN /\ pc' = "loginFresh"
                /\ trace' = trace \o <<"Start", "LoggingIn">>
                /\ UNCHANGED cookies
           ELSE /\ pc' = "inject"
                /\ cookies' = r.cookies
                /\ trace' = trace \o <<"Start", "TryCookies">>
    /\ UNCHANGED << accounts, proxies, mappingFile, cookieFiles, mappingFile0, cookieFiles0,
                    mapping, account, proxy, newProxy, bound, proxyFailed, cookiesChan,
                    jar, outcome, driverOps, probes, rebinds, logins, captures, sends,
                    recvs,
                    probed, validity >>

\* What the site may leave in the jar when a page is loaded with the cookies cs: the
\* same tokens, or rotated ones.
Rotate(cs) == [i \in DOMAIN cs |-> IF cs[i] = "c1" THEN "c2" ELSE "c1"]

\* Lines 233-244, 257-260: the stored cookies are set in the browser and the home page
\* is loaded.  A SetCookie or Navigate error ends chromedp.Run and the run.
TryCookies ==
    /\ pc = "inject"
    /\ driverOps' = driverOps + 1
    /\ \E step \in {"setCookieError", "navigateError", "ok"} :
          CASE step = "setCookieError" ->
                 /\ cookies # <<>>
                 /\ Exit("CookieError")
                 /\ trace' = Append(trace, "Failed")
                 /\ UNCHANGED jar
            [] step = "navigateError" ->
                 /\ jar' = cookies
                 /\ Exit("CookieError")
                 /\ trace' = Append(trace, "Failed")
            [] step = "ok" ->
                 /\ jar' \in {cookies, Rotate(cookies)}
                 /\ pc' = "validate"
                 /\ trace' = Append(trace, "Validating")
                 /\ UNCHANGED outcome
    /\ UNCHANGED << accounts, proxies, mappingFile, cookieFiles, mappingFile0, cookieFiles0,
                    mapping, account, proxy, newProxy, bound, proxyFailed, cookiesChan,
                    cookies, probes, rebinds, logins, captures, sends, recvs,
                    probed, validity >>

\* ch <- v on the buffered channel: the value is queued when there is room; a full
\* channel blocks the sender, and nothing ever receives while main is sending.
Send(v) ==
    IF Len(cookiesChan) < ChanCap
    THEN cookiesChan' = Append(cookiesChan, v) /\ sends' = sends + 1 /\ pc' = "receive"
    ELSE pc' = "blocked" /\ UNCHANGED << cookiesChan, sends >>

\* The value the valid-cookies branch sends (line 250).
ValidOutcome == cookies

\* Lines 245-255: the validity probe.  True with no error sends the cookies; false and
\* an Evaluate error both go on to performLogin inside the same chromedp.Run.
Validate ==
    /\ pc = "validate"
    /\ \E result \in ProbeResults :
          /\ validity' = result
          /\ IF CookiesValid(result)
             THEN /\ Send(ValidOutcome)
                  /\ trace' = trace \o <<"Valid", "Done">>
             ELSE /\ pc' = "loginNested"
                  /\ trace' = Append(trace, "LoggingIn")
                  /\ UNCHANGED << cookiesChan, sends >>
    /\ UNCHANGED << accounts, proxies, mappingFile, cookieFiles, mappingFile0, cookieFiles0,
                    mapping, account, proxy, newProxy, bound, proxyFailed, cookies, jar,
                    outcome, driverOps, probes, rebinds, logins, captures, recvs,
                    probed >>

\* A performLogin wrapped in a retry: a failed attempt is started again.
performLoginRetried ==
    /\ pc \in {"loginFresh", "loginNested"}
    /\ logins' = logins + 1
    /\ \E ok \in BOOLEAN :
          IF ok
          THEN /\ \E j \in LoginJars : jar' = j /\ Send(j)
               /\ trace' = Append(trace, "Done")
          ELSE /\ trace' = Append(trace, "Failed")
               /\ UNCHANGED << pc, jar, cookiesChan, sends >>
    /\ driverOps' = driverOps + 1
    /\ UNCHANGED << accounts, proxies, mappingFile, cookieFiles, mappingFile0, cookieFiles0,
                    mapping, account, proxy, newProxy, bound, proxyFailed, cookies,
                    probes, rebinds, recvs, probed, validity, outcome, captures >>

\* Lines 133-155 with their two call sites.  A failing step, or a failing read of the
\* cookies, returns the error: at line 263 the page markup is captured and main
\* returns; at line 254 the error ends the enclosing chromedp.Run and main returns at
\* line 259.  Otherwise the jar is read and sent.
performLogin ==
    /\ pc \in {"loginFresh", "loginNested"}
    /\ logins' = logins + 1
    /\ \E ok \in BOOLEAN :
          IF ok
          THEN /\ \E j \in LoginJars : jar' = j /\ Send(j)
               /\ trace' = Append(trace, "Done")
               /\ driverOps' = driverOps + 1
               /\ UNCHANGED << outcome, captures >>
          ELSE /\ trace' = Append(trace, "Failed")
               /\ IF pc = "loginFresh"
                  THEN /\ Exit("LoginFailed")
                       /\ captures' = captures + 1
                       /\ driverOps' = driverOps + 2
                  ELSE /\ Exit("CookieError")
                       /\ driverOps' = driverOps + 1
                       /\ UNCHANGED captures
               /\ UNCHANGED << jar, cookiesChan, sends >>
    /\ UNCHANGED << accounts, proxies, mappingFile, cookieFiles, mappingFile0, cookieFiles0,
                    mapping, account, proxy, newProxy, bound, proxyFailed, cookies,
                    probes, rebinds, recvs,
                    probed, validity >>

\* Line 274: the receive; it blocks for ever on an empty channel.
Receive ==
    /\ pc = "receive"
    /\ IF Len(cookiesChan) > 0
       THEN /\ cookies' = Head(cookiesChan)
            /\ cookiesChan' = Tail(cookiesChan)
            /\ recvs' = recvs + 1
            /\ pc' = "saveCookies"
       ELSE pc' = "blocked" /\ UNCHANGED << cookies, cookiesChan, recvs >>
    /\ UNCHANGED << accounts, proxies, mappingFile, cookieFiles, mappingFile0, cookieFiles0,
                    mapping, account, proxy, newProxy, bound, proxyFailed, jar, outcome,
                    trace, driverOps, probes, rebinds, logins, captures, sends,
                    probed, validity >>

\* Lines 275-283: the cookies are marshalled and written over the cookie file.
SaveCookies ==
    /\ pc = "saveCookies"
    /\ \/ Exit("MarshalError") /\ UNCHANGED cookieFiles
       \/ \E w \in WriteFile(cookieFiles[cookieFile], cookies) :
             /\ cookieFiles' = [cookieFiles EXCEPT ![cookieFile] = w.content]
             /\ IF w.err
                THEN Exit("CookieWriteError")
                ELSE pc' = "saveMapping" /\ UNCHANGED outcome
    /\ UNCHANGED << accounts, proxies, mappingFile, mappingFile0, cookieFiles0, mapping,
                    account, proxy, newProxy, bound, proxyFailed, cookiesChan, cookies,
                    jar, trace, driverOps, probes, rebinds, logins, captures, sends,
                    recvs,
                    probed, validity >>

\* Lines 285-291: the mapping is written over the mapping file.
SaveMapping ==
    /\ pc = "saveMapping"
    /\ \E w \in saveMapping(mappingFile, mapping) :
          /\ mappingFile' = w.content
          /\ Exit(IF w.err THEN "MappingWriteError" ELSE "Success")
    /\ UNCHANGED << accounts, proxies, cookieFiles, mappingFile0, cookieFiles0, mapping,
                    account, proxy, newProxy, bound, proxyFailed, cookiesChan, cookies,
                    jar, trace, driverOps, probes, rebinds, logins, captures, sends,
                    recvs,
                    probed, validity >>

Next ==
    \/ Load
    \/ Select
    \/ Probe
    \/ Pick
    \/ \E j \in DOMAIN proxies : Repick(j)
    \/ Replace
    \/ Start
    \/ TryCookies
    \/ Validate
    \/ performLogin
    \/ Receive
    \/ SaveCookies
    \/ SaveMapping

Spec == Init /\ [][Next]_vars

\* The run under fair scheduling: main keeps running, and the random draws of the
\* replacement loop do not avoid a pool entry for ever.
FairSpec == Spec /\ WF_vars(Next)

\* ------------------------------------------------------------------ claims
Terminated == pc = "exit"

\* The run is past the failover block (line 227).
PastFailover == pc \notin {"load", "select", "probe", "pick", "loop"} /\ outcome \notin {"LoadError", "Panic"}

Differs(a, b) == a.Server # b.Server \/ a.Port # b.Port

\* C1: whenever the probe failed and a replacement was made, the replacement (the
\* proxy main now holds and the proxy the new context is bound to) differs from the
\* probed proxy in host or port, and no context is ever bound to the failed proxy
\* after the failure.
C1_ReplacementDiffers ==
    /\ rebinds > 0 => proxyFailed /\ Differs(proxy, probed) /\ bound = proxy
    /\ (proxyFailed /\ PastFailover) => Differs(bound, probed)

\* C1 witness: a pool of two duplicate entries, a failed proxy that came from the
\* stored mapping and is not in the pool, and the replacement made.
C1_Witness ==
    /\ rebinds = 1
    /\ Len(proxies) = 2
    /\ proxies[1] = proxies[2]
    /\ probed \notin Range(proxies)
    /\ bound = proxies[1]

StoresUnchanged == cookieFiles = cookieFiles0 /\ mappingFile = mappingFile0

\* The run can still take a step that changes its state.
CanProgress == ENABLED <<Next>>_vars

\* C2: with a pool of exactly one proxy, that proxy selected and the probe failed,
\* the run terminates with the NoAlternateProxy failure (it is never left unable to
\* go on without having terminated so), and neither store is written.
C2_SingleProxyFailover ==
    (Len(proxies) = 1 /\ proxyFailed /\ probed = proxies[1]) =>
        /\ StoresUnchanged
        /\ Terminated => outcome = "NoAlternateProxy"
        /\ ~Terminated => CanProgress

NonEmptyPools == Len(accounts) > 0 /\ Len(proxies) > 0

\* C3: a run that ended in a failure left the cookie slot of the account and the
\* mapping store as they were at process start (stated for non-empty pools).
C3_FailureLeavesStores ==
    (NonEmptyPools /\ Terminated /\ outcome # "Success") =>
        /\ mappingFile = mappingFile0
        /\ account # NoAccount => cookieFiles[cookieFile] = cookieFiles0[cookieFile]

\* C4: at most one value is ever sent on the channel and at most one received; no
\* send or receive ever blocks; at the receive exactly one value is in the channel,
\* and after it the channel is empty and the value has been consumed once.
C4_SingleSlotHandoff ==
    /\ sends <= 1
    /\ recvs <= sends
    /\ Len(cookiesChan) = sends - recvs
    /\ pc # "blocked"
    /\ pc = "receive" => Len(cookiesChan) = 1 /\ recvs = 0
    /\ pc \in {"saveCookies", "saveMapping"} => sends = 1 /\ recvs = 1
    /\ outcome \in {"MarshalError", "CookieWriteError", "MappingWriteError", "Success"} =>
           sends = 1 /\ recvs = 1

\* C4 witness: the value sent by the login that followed invalid stored cookies has
\* been received.
C4_Witness ==
    /\ pc = "saveCookies"
    /\ recvs = 1
    /\ trace = <<"Start", "TryCookies", "Validating", "LoggingIn", "Done">>

\* C5: with an empty account pool or an empty proxy pool, once the pools and the
\* mapping are loaded the run ends in the empty-pool failure (here: the panic of
\* the selection) with no driver operation issued and no store written.
C5_EmptyPoolFailsFirst ==
    ((Len(accounts) = 0 \/ Len(proxies) = 0) /\ pc # "load" /\ outcome # "LoadError") =>
        /\ driverOps = 0
        /\ StoresUnchanged
        /\ pc \in {"select", "exit"}
        /\ Terminated => outcome = "Panic"

\* C6: when the cookie file of the selected account cannot be loaded (missing or
\* unparsable), session acquisition goes from Start straight to LoggingIn: nothing is
\* set in the jar before the login, the restoring chromedp.Run (injection,
\* home-page navigation) is never started and the validity probe is never evaluated.
C6_NoCookiesDirectLogin ==
    (account # NoAccount /\ cookieFiles0[cookieFile].kind # "data" /\ trace # <<>>) =>
        /\ SubSeq(trace, 1, 2) = <<"Start", "LoggingIn">>
        /\ Range(trace) \cap {"TryCookies", "Validating", "Valid"} = {}
        /\ pc \notin {"inject", "validate", "loginNested"}
        /\ ~validity.done
        /\ logins = 0 => jar = <<>>

\* C6 witness: an unparsable cookie file, and the run at the fresh login.
C6_Witness ==
    /\ pc = "loginFresh"
    /\ cookieFiles0[cookieFile].kind = "garbage"
    /\ trace = <<"Start", "LoggingIn">>

\* C7: once the validity probe has been evaluated (the stored cookies were injected
\* and the home page loaded), a true result leads to Valid and Done with no login; a
\* false result and an error both lead to LoggingIn, and a login that then succeeds
\* gives the state order Start, TryCookies, Validating, LoggingIn, Done.
C7_ProbeDecides ==
    validity.done =>
        /\ SubSeq(trace, 1, 3) = <<"Start", "TryCookies", "Validating">>
        /\ (validity.exists /\ ~validity.err) =>
               trace = <<"Start", "TryCookies", "Validating", "Valid", "Done">> /\ logins = 0
        /\ (~validity.exists \/ validity.err) =>
               /\ Len(trace) >= 4
               /\ trace[4] = "LoggingIn"
               /\ "Valid" \notin Range(trace)
               /\ "Done" \in Range(trace) =>
                      /\ trace = <<"Start", "TryCookies", "Validating", "LoggingIn", "Done">>
                      /\ logins = 1

\* C7 witness: the probe errored, the login succeeded and the run completed.
C7_Witness ==
    /\ validity.done
    /\ validity.err
    /\ outcome = "Success"
    /\ trace = <<"Start", "TryCookies", "Validating", "LoggingIn", "Done">>

\* C8: on the Valid path the cookies handed to the writer, and the cookies persisted
\* by a successful run, are the current contents of the browser's jar (stated for
\* non-empty pools).
C8_ValidPersistsJar ==
    (NonEmptyPools /\ "Valid" \in Range(trace)) =>
        /\ pc = "saveCookies" => cookies = jar
        /\ outcome = "Success" => cookieFiles[cookieFile] = Data(jar)

\* C9: the probe runs once and the proxy is replaced at most once; a run that got
\* past the failover block replaced the proxy exactly when the probe failed; after
\* a replacement the mapping entry of the account, main's proxy and the proxy of
\* the context are the replacement, which differs from the probed proxy and was
\* not probed; without a replacement the context keeps the probed proxy.  While
\* the loop searches a pool that holds a proxy different from the failed one, a
\* draw that ends the search is possible.
C9_OneShotFailover ==
    /\ (pc = "loop" /\ \E j \in DOMAIN proxies : Differs(proxies[j], proxy)) => CanProgress
    /\ probes <= 1
    /\ rebinds <= 1
    /\ PastFailover => probes = 1 /\ rebinds = (IF proxyFailed THEN 1 ELSE 0)
    /\ rebinds = 1 =>
           /\ proxyFailed
           /\ probes = 1
           /\ mapping[account.Email] = bound
           /\ proxy = bound
           /\ Differs(bound, probed)
    /\ (probes = 1 /\ rebinds = 0) => bound = probed /\ proxy = probed

\* C9, under FairSpec: a failed probe with a different proxy in the pool leads to
\* the replacement.
C9_EventuallyReplaced ==
    (pc = "pick" /\ \E j \in DOMAIN proxies : Differs(proxies[j], proxy)) ~> (rebinds = 1)

\* C9 witness: after the one replacement the login failed, and the run ended in that
\* failure with no second replacement.
C9_Witness ==
    /\ rebinds = 1
    /\ outcome = "LoginFailed"
    /\ Len(proxies) = 2

\* C10: when the selection has returned, the account is in the account pool, the
\* proxy is the entry the loaded mapping had for the account or a member of the
\* proxy pool, and the mapping holds the returned proxy for the account; the mapping
\* keeps an entry for the account, equal to main's proxy, up to the end of the run,
\* failed or not.
C10_SelectContract ==
    LET m0 == loadMapping(mappingFile0).mapping
    IN  /\ pc = "probe" =>
               /\ account \in Range(accounts)
               /\ \/ account.Email \in DOMAIN m0 /\ proxy = m0[account.Email]
                  \/ proxy \in Range(proxies)
               /\ account.Email \in DOMAIN mapping
               /\ mapping[account.Email] = proxy
        /\ bound # NoProxy =>
               /\ account.Email \in DOMAIN mapping
               /\ mapping[account.Email] = proxy

\* C10 witness: an account with no stored affinity was given a pool proxy, and the
\* run has failed with the assignment in the mapping.
C10_Witness ==
    /\ outcome = "LoginFailed"
    /\ rebinds = 0
    /\ account.Email \notin DOMAIN loadMapping(mappingFile0).mapping
    /\ mapping[account.Email] = proxy
    /\ proxy \in Range(proxies)

\* C11: the selection is sticky.  When it has returned, a second call on the same
\* pools and the mapping it left, picking the same account, returns the same proxy
\* and leaves the mapping unchanged; an account that had a proxy in the loaded
\* mapping got that proxy, whether or not the pool still holds it.
C11_StickyAffinity ==
    pc = "probe" =>
        /\ \A r \in selectRandomAccountAndProxy(accounts, proxies, mapping) :
               r.account = account => ~r.panic /\ r.proxy = proxy /\ r.mapping = mapping
        /\ LET m0 == loadMapping(mappingFile0).mapping
           IN  account.Email \in DOMAIN m0 => proxy = m0[account.Email] /\ mapping = m0

\* C11 witness: the selection returned a mapped proxy that the (non-empty) pool no
\* longer holds.
C11_Witness ==
    /\ pc = "probe"
    /\ Len(proxies) = 2
    /\ proxy \notin Range(proxies)
    /\ Len(accounts) = 2

\* The accounts named by the records of a mapping file that parses.
FileKeys(file) == DOMAIN loadMapping(file).mapping

\* C12: a run that reached Done hands a non-empty CookieSet to the writer, on the
\* Valid path and on the login path; and a successful run that started with no
\* cookie file for the account and a reachable proxy leaves the account in the
\* persisted mapping (stated for non-empty pools).
C12_DoneNonEmpty ==
    NonEmptyPools =>
        /\ ("Done" \in Range(trace) /\ pc = "saveCookies") => cookies # <<>>
        /\ (outcome = "Success" /\ cookieFiles0[cookieFile].kind = "absent" /\ ~proxyFailed) =>
               account.Email \in FileKeys(mappingFile)

\* C13: a run whose scripted login failed, on the path with no stored cookies or on
\* the path after a failed validation, ended in Failed with one capture of the page
\* markup attempted (stated for non-empty pools).
C13_LoginFailureCaptured ==
    (NonEmptyPools /\ logins >= 1 /\ "Failed" \in Range(trace)) =>
        /\ Terminated
        /\ outcome \in {"LoginFailed", "CookieError"}
        /\ captures = 1

\* C14: performLogin is called at most once in a run; a run whose login failed has
\* ended, in that failure, after the one call; a run that reached Valid called it
\* not at all; and no call happens before the login state is entered.
C14_LoginAtMostOnce ==
    /\ logins <= 1
    /\ "Valid" \in Range(trace) => logins = 0
    /\ "LoggingIn" \notin Range(trace) => logins = 0
    /\ (logins >= 1 /\ "Failed" \in Range(trace)) =>
           Terminated /\ outcome \in {"LoginFailed", "CookieError"}
    /\ (Terminated /\ outcome \in {"LoginFailed"}) => logins = 1

\* C14 witness: the login that followed a failed validation has failed and the run
\* has ended.
C14_Witness ==
    /\ Terminated
    /\ logins = 1
    /\ trace = <<"Start", "TryCookies", "Validating", "LoggingIn", "Failed">>

AccountEmails == { accounts[i].Email : i \in DOMAIN accounts }

\* C15: once the mapping is loaded, every key of main's mapping is the identifier
\* of an account of the loaded pool, and so is every key of the mapping file that a
\* successful run wrote (stated for non-empty pools).
C15_KeysAreAccounts ==
    (NonEmptyPools /\ pc # "load" /\ outcome # "LoadError") =>
        /\ DOMAIN mapping \subseteq AccountEmails
        /\ outcome = "Success" => FileKeys(mappingFile) \subseteq AccountEmails

\* C16: the cookie slot of the account always holds its complete prior content or
\* the complete new CookieSet, and after a failed write of the cookies it holds the
\* prior content (stated for non-empty pools).
C16_AtomicOverwrite ==
    (NonEmptyPools /\ account # NoAccount) =>
        /\ \/ cookieFiles[cookieFile] = cookieFiles0[cookieFile]
           \/ /\ pc \in {"saveMapping", "exit"}
              /\ cookieFiles[cookieFile] = Data(cookies)
        /\ outcome = "CookieWriteError" => cookieFiles[cookieFile] = cookieFiles0[cookieFile]

\* C17: after a failed probe with a pool of two or more entries, the run has
\* terminated or can still take a step that changes its state, so that under fair
\* draws it terminates.
C17_FailoverTerminates ==
    (proxyFailed /\ Len(proxies) >= 2) => (Terminated \/ CanProgress)

\* C18: no other account of the pool shares the cookie slot of the selected account,
\* and the run leaves the cookie slot of every other account of the pool as it was
\* (stated for non-empty pools).
C18_SlotPerAccount ==
    (NonEmptyPools /\ account # NoAccount) =>
        \A i \in DOMAIN accounts :
            accounts[i].Email # account.Email =>
                /\ cookieFileName(accounts[i].Email) # cookieFile
                /\ cookieFiles[cookieFileName(accounts[i].Email)]
                       = cookieFiles0[cookieFileName(accounts[i].Email)]

\* The map m without the entry of key k.
Without(m, k) == [x \in (DOMAIN m) \ {k} |-> m[x]]

\* C19: a run changes the affinity of the selected account only.  In memory, and
\* in the store a successful run wrote, the entries of all other accounts are those
\* loaded at start, none added, removed or changed; and when the probe succeeded and
\* the selected account had an entry at start, the persisted mapping is the loaded
\* mapping.
C19_OtherAffinitiesKept ==
    (account # NoAccount /\ pc # "load") =>
        LET m0 == loadMapping(mappingFile0).mapping
        IN  /\ Without(mapping, account.Email) = Without(m0, account.Email)
            /\ outcome = "Success" =>
                   /\ mappingFile.kind = "data"
                   /\ Without(loadMapping(mappingFile).mapping, account.Email)
                          = Without(m0, account.Email)
                   /\ (~proxyFailed /\ account.Email \in DOMAIN m0) =>
                          loadMapping(mappingFile).mapping = m0

\* C19 witness: a successful run for an account with no entry at start, with the
\* entry of another account in the store before and after.
C19_Witness ==
    /\ outcome = "Success"
    /\ account.Email \notin FileKeys(mappingFile0)
    /\ FileKeys(mappingFile0) # {}
    /\ Cardinality(FileKeys(mappingFile)) = 2

\* C20: from session acquisition on, the mapping entry of the selected account is
\* the proxy the context is bound to (the replacement after a failover, the selected
\* proxy otherwise), and the store a successful run wrote holds that proxy for the
\* account.
C20_AffinityIsBoundProxy ==
    PastFailover =>
        /\ account.Email \in DOMAIN mapping
        /\ mapping[account.Email] = bound
        /\ bound = (IF proxyFailed THEN newProxy ELSE probed)
        /\ outcome = "Success" =>
               /\ account.Email \in FileKeys(mappingFile)
               /\ loadMapping(mappingFile).mapping[account.Email] = bound

\* C20 witness: a successful run after a failover, the replacement persisted for
\* the account in place of the entry loaded at start.
C20_Witness ==
    /\ outcome = "Success"
    /\ rebinds = 1
    /\ account.Email \in FileKeys(mappingFile0)
    /\ loadMapping(mappingFile).mapping[account.Email] = newProxy
    /\ loadMapping(mappingFile0).mapping[account.Email] # newProxy

====
